---- MODULE Spec2Model ----
(***************************************************************************)
(* Model of graphiti_core/search/neo4j_vector_search.py: the fallback-mode *)
(* tracker (should_use_search_index, mark_search_index_fallback), the      *)
(* group-scope splitter (split_group_ids) and the three vector-search      *)
(* query assemblers (node, community, edge).                               *)
(*                                                                         *)
(* Query text is modelled as the sequence of its whitespace-separated      *)
(* tokens; a parameter mapping (dict) is a function from key strings to    *)
(* values; an Optional value is the record None or Some(v).                *)
(***************************************************************************)
EXTENDS Integers, Sequences, FiniteSets, TLC

VARIABLES
    attrs,    \* attrs[t]: the attributes set on target object t (a dict)
    log,      \* the warnings emitted through logger.warning, in order
    calls,    \* calls[t]: completed mark_search_index_fallback calls on t
    ret,      \* the tracker call that has just returned, with its value
    pc,       \* pc[c]: position of concurrent caller c inside mark_...
    arg,      \* arg[c]: the (target, exc) arguments of caller c
    seen,     \* seen[c]: the value caller c read for the logged flag
    call,     \* the splitter / assembler call that has just been made
    result    \* what that call returned

vars == <<attrs, log, calls, ret, pc, arg, seen, call, result>>

trackerVars == <<attrs, log, calls, ret>>
callerVars == <<pc, arg, seen>>
builderVars == <<call, result>>

----------------------------------------------------------------------------
(* Bounds                                                                  *)

\* completed mark calls counted per target in the sequential specification
MaxCalls == 3
\* longest group_ids list passed to the splitter and the assemblers
MaxGroupIds == 3
\* number of callers running mark_search_index_fallback concurrently
NumCallers == 2

Targets == {"driverA", "driverB"}
Exceptions == {"exc1", "exc2"}
Callers == 1..NumCallers

----------------------------------------------------------------------------
(* Python values                                                           *)

None == [tag |-> "None"]
Some(v) == [tag |-> "Some", val |-> v]

EmptyDict == [k \in {} |-> None]

\* d[key] = value on a dict
DictSet(d, key, value) ==
    [k \in DOMAIN d \cup {key} |-> IF k = key THEN value ELSE d[k]]

\* {**a, **b}: the keys of both, b's value where both bind a key
DictMerge(a, b) ==
    [k \in DOMAIN a \cup DOMAIN b |-> IF k \in DOMAIN b THEN b[k] ELSE a[k]]

Range(s) == {s[i] : i \in DOMAIN s}

----------------------------------------------------------------------------
(* Fallback-mode tracker                                                   *)

_VECTOR_SEARCH_MODE_ATTR == "_neo4j_vector_search_mode"
_VECTOR_SEARCH_FALLBACK_LOGGED_ATTR == "_neo4j_vector_search_fallback_logged"

\* getattr(target, name, default)
GetAttr(t, name, default) ==
    IF name \in DOMAIN attrs[t] THEN attrs[t][name] ELSE default

\* the attribute dicts after setattr(target, name, value)
SetAttr(as, t, name, value) ==
    [as EXCEPT ![t] = DictSet(as[t], name, value)]

\* line 34: the value should_use_search_index(target) returns
should_use_search_index(t) ==
    GetAttr(t, _VECTOR_SEARCH_MODE_ATTR, "search") # "fallback"

\* a call of should_use_search_index: it returns, and writes nothing
ShouldUseCall(t) ==
    /\ ret' = [op |-> "should_use", target |-> t,
               value |-> should_use_search_index(t)]
    /\ UNCHANGED <<attrs, log, calls>>

\* logger.warning('Neo4j SEARCH INDEX unavailable, falling back: %s', exc)
Warning(t, exc) == [target |-> t, exc |-> exc]

\* a plausible slip: the logged flag is never consulted
mark_always_warns(t, exc) ==
    /\ log' = Append(log, Warning(t, exc))
    /\ attrs' = SetAttr(SetAttr(attrs, t, _VECTOR_SEARCH_FALLBACK_LOGGED_ATTR, TRUE),
                        t, _VECTOR_SEARCH_MODE_ATTR, "fallback")

\* a plausible slip: a repeated failure flips the mode back and clears the flag
mark_toggles(t, exc) ==
    IF ~GetAttr(t, _VECTOR_SEARCH_FALLBACK_LOGGED_ATTR, FALSE)
    THEN /\ log' = Append(log, Warning(t, exc))
         /\ attrs' = SetAttr(SetAttr(attrs, t, _VECTOR_SEARCH_FALLBACK_LOGGED_ATTR, TRUE),
                             t, _VECTOR_SEARCH_MODE_ATTR, "fallback")
    ELSE /\ log' = log
         /\ attrs' = SetAttr(SetAttr(attrs, t, _VECTOR_SEARCH_FALLBACK_LOGGED_ATTR, FALSE),
                             t, _VECTOR_SEARCH_MODE_ATTR, "search")

\* a plausible slip: the state is kept in one place shared by every target
mark_marks_all(t, exc) ==
    /\ log' = IF ~GetAttr(t, _VECTOR_SEARCH_FALLBACK_LOGGED_ATTR, FALSE)
              THEN Append(log, Warning(t, exc)) ELSE log
    /\ attrs' = [u \in Targets |->
                    DictSet(DictSet(attrs[u], _VECTOR_SEARCH_FALLBACK_LOGGED_ATTR, TRUE),
                            _VECTOR_SEARCH_MODE_ATTR, "fallback")]

\* lines 37-41, run without interruption
mark_search_index_fallback(t, exc) ==
    IF ~GetAttr(t, _VECTOR_SEARCH_FALLBACK_LOGGED_ATTR, FALSE)
    THEN /\ log' = Append(log, Warning(t, exc))
         /\ attrs' = SetAttr(SetAttr(attrs, t, _VECTOR_SEARCH_FALLBACK_LOGGED_ATTR, TRUE),
                             t, _VECTOR_SEARCH_MODE_ATTR, "fallback")
    ELSE /\ log' = log
         /\ attrs' = SetAttr(attrs, t, _VECTOR_SEARCH_MODE_ATTR, "fallback")

\* a call of mark_search_index_fallback: it returns None
MarkCall(t, exc) ==
    /\ calls[t] < MaxCalls
    /\ mark_search_index_fallback(t, exc)
    /\ calls' = [calls EXCEPT ![t] = @ + 1]
    /\ ret' = [op |-> "mark", target |-> t, value |-> FALSE]

TrackerInit ==
    /\ attrs = [t \in Targets |-> EmptyDict]
    /\ log = <<>>
    /\ calls = [t \in Targets |-> 0]
    /\ ret = [op |-> "none", target |-> "none", value |-> FALSE]

CallerInit ==
    /\ pc = [c \in Callers |-> "idle"]
    /\ arg = [c \in Callers |-> [target |-> "none", exc |-> "none"]]
    /\ seen = [c \in Callers |-> FALSE]

BuilderInit ==
    /\ call = [fn |-> "none"]
    /\ result = None

Init == TrackerInit /\ CallerInit /\ BuilderInit

\* the tracker's operations, each call run to completion before the next
Next ==
    \/ \E t \in Targets : ShouldUseCall(t) /\ UNCHANGED <<callerVars, builderVars>>
    \/ \E t \in Targets, exc \in Exceptions :
           MarkCall(t, exc) /\ UNCHANGED <<callerVars, builderVars>>

Spec == Init /\ [][Next]_vars

----------------------------------------------------------------------------
(* mark_search_index_fallback, statement by statement, for callers that    *)
(* share target objects: the function takes no lock, so the statements of  *)
(* different callers interleave.                                           *)

\* a caller enters mark_search_index_fallback(target, exc)
Enter(c, t, exc) ==
    /\ pc[c] = "idle"
    /\ arg' = [arg EXCEPT ![c] = [target |-> t, exc |-> exc]]
    /\ pc' = [pc EXCEPT ![c] = "line38"]
    /\ UNCHANGED <<attrs, log, seen>>

\* line 38: if not getattr(target, _VECTOR_SEARCH_FALLBACK_LOGGED_ATTR, False)
ReadLogged(c) ==
    /\ pc[c] = "line38"
    /\ seen' = [seen EXCEPT ![c] =
                   GetAttr(arg[c].target, _VECTOR_SEARCH_FALLBACK_LOGGED_ATTR, FALSE)]
    /\ pc' = [pc EXCEPT ![c] = IF seen'[c] THEN "line41" ELSE "line39"]
    /\ UNCHANGED <<attrs, log, arg>>

\* line 39: logger.warning(...)
EmitWarning(c) ==
    /\ pc[c] = "line39"
    /\ log' = Append(log, Warning(arg[c].target, arg[c].exc))
    /\ pc' = [pc EXCEPT ![c] = "line40"]
    /\ UNCHANGED <<attrs, arg, seen>>

\* line 40: setattr(target, _VECTOR_SEARCH_FALLBACK_LOGGED_ATTR, True)
WriteLogged(c) ==
    /\ pc[c] = "line40"
    /\ attrs' = SetAttr(attrs, arg[c].target, _VECTOR_SEARCH_FALLBACK_LOGGED_ATTR, TRUE)
    /\ pc' = [pc EXCEPT ![c] = "line41"]
    /\ UNCHANGED <<log, arg, seen>>

\* line 41: setattr(target, _VECTOR_SEARCH_MODE_ATTR, 'fallback'), and return
WriteMode(c) ==
    /\ pc[c] = "line41"
    /\ attrs' = SetAttr(attrs, arg[c].target, _VECTOR_SEARCH_MODE_ATTR, "fallback")
    /\ pc' = [pc EXCEPT ![c] = "done"]
    /\ UNCHANGED <<log, arg, seen>>

\* each caller makes one call; the calls' statements interleave freely
NextConcurrent ==
    \/ \E c \in Callers, t \in Targets, exc \in Exceptions :
          Enter(c, t, exc) /\ UNCHANGED <<calls, ret, builderVars>>
    \/ \E c \in Callers : ReadLogged(c) /\ UNCHANGED <<calls, ret, builderVars>>
    \/ \E c \in Callers : EmitWarning(c) /\ UNCHANGED <<calls, ret, builderVars>>
    \/ \E c \in Callers : WriteLogged(c) /\ UNCHANGED <<calls, ret, builderVars>>
    \/ \E c \in Callers : WriteMode(c) /\ UNCHANGED <<calls, ret, builderVars>>

SpecConcurrent == Init /\ [][NextConcurrent]_vars

----------------------------------------------------------------------------
(* Properties of the tracker                                               *)

\* the warnings emitted for target t
WarnCount(t) == Cardinality({i \in DOMAIN log : log[i].target = t})

Mode(t) == GetAttr(t, _VECTOR_SEARCH_MODE_ATTR, "search")
Warned(t) == GetAttr(t, _VECTOR_SEARCH_FALLBACK_LOGGED_ATTR, FALSE)

\* C1: a target never marked answers should_use_search_index with true; after
\* the first mark_search_index_fallback call and after every later one
\* (the second included) exactly one warning has been emitted for it in
\* total, it is in fallback mode, and should_use_search_index answers false.
C1_OneWarningThenFallback ==
    /\ \A t \in Targets :
          /\ calls[t] = 0 => should_use_search_index(t) /\ WarnCount(t) = 0
          /\ calls[t] >= 1 =>
                /\ WarnCount(t) = 1
                /\ Mode(t) = "fallback"
                /\ ~should_use_search_index(t)
    /\ ret.op = "should_use" => (ret.value <=> calls[ret.target] = 0)

\* mark has run twice on driverA and should_use_search_index then returned false
C1_Witness ==
    /\ calls["driverA"] = 2
    /\ WarnCount("driverA") = 1
    /\ ret = [op |-> "should_use", target |-> "driverA", value |-> FALSE]

\* C2: with the statements of concurrent mark_search_index_fallback calls
\* interleaved arbitrarily, at most one warning is emitted per target, and
\* once every caller has returned each target a caller marked is in
\* fallback mode.
C2_AtMostOneWarningConcurrent ==
    /\ \A t \in Targets : WarnCount(t) <= 1
    /\ (\A c \in Callers : pc[c] = "done") =>
          \A c \in Callers : Mode(arg[c].target) = "fallback"

\* C3: once a target's mode is fallback it is fallback in the next state,
\* and once its warned flag is true it is true in the next state, whatever
\* tracker operation is called.
C3_DegradationSticky ==
    [][\A t \in Targets :
          /\ Mode(t) = "fallback" => Mode(t)' = "fallback"
          /\ Warned(t) => Warned(t)']_vars

\* driverA is still degraded after a third mark and a later read
C3_Witness ==
    /\ calls["driverA"] = 3
    /\ Mode("driverA") = "fallback"
    /\ Warned("driverA")
    /\ ret = [op |-> "should_use", target |-> "driverA", value |-> FALSE]

\* C9: should_use_search_index changes no target's attributes and emits
\* nothing; mark_search_index_fallback(t, _) changes the attributes of t
\* only; so should_use_search_index(u) is false exactly for the targets u
\* that have been marked, each of which has had exactly one warning.
C9_PerTargetFrame ==
    /\ [](\A u \in Targets :
            /\ ~should_use_search_index(u) <=> calls[u] >= 1
            /\ WarnCount(u) = (IF calls[u] >= 1 THEN 1 ELSE 0))
    /\ [][/\ ret'.op = "should_use" => attrs' = attrs /\ log' = log
          /\ ret'.op = "mark" =>
                \A u \in Targets \ {ret'.target} : attrs'[u] = attrs[u]]_vars

\* driverA has been marked twice, driverB never, and driverB still answers true
C9_Witness ==
    /\ calls["driverA"] = 2
    /\ calls["driverB"] = 0
    /\ attrs["driverB"] = EmptyDict
    /\ ret = [op |-> "should_use", target |-> "driverB", value |-> TRUE]

----------------------------------------------------------------------------
(* Inputs of the splitter and the assemblers                               *)

GroupIdNames == {"tenantA", "tenantB"}

\* group_ids: list[str] | None
GroupIdLists == UNION {[1..n -> GroupIdNames] : n \in 0..MaxGroupIds}
GroupIdArgs == {None} \cup {Some(l) : l \in GroupIdLists}

\* source_node_uuid, target_node_uuid: str | None
SourceArgs == {None, Some("x")}
TargetArgs == {None, Some("y")}

\* SearchFilters objects: a criterion that needs no parameter (labels) and
\* one that binds a parameter (values), each given or not
SearchFilters == [labels : BOOLEAN, values : BOOLEAN]
NoFilter == [labels |-> FALSE, values |-> FALSE]

----------------------------------------------------------------------------
(* Collaborators: filter constructors, return projections, index names     *)

\* (filter_queries, filter_params) for a node filter
node_search_filter_query_constructor(search_filter) ==
    << (IF search_filter.labels THEN << <<"n:Person">> >> ELSE <<>>)
         \o (IF search_filter.values
             THEN << <<"n.name", "IN", "$filter_values">> >> ELSE <<>>),
       IF search_filter.values
       THEN DictSet(EmptyDict, "filter_values", <<"v1">>) ELSE EmptyDict >>

\* (filter_queries, filter_params) for an edge filter
edge_search_filter_query_constructor(search_filter) ==
    << (IF search_filter.labels
        THEN << <<"n:Person", "AND", "m:Person">> >> ELSE <<>>)
         \o (IF search_filter.values
             THEN << <<"e.name", "IN", "$filter_values">> >> ELSE <<>>),
       IF search_filter.values
       THEN DictSet(EmptyDict, "filter_values", <<"v1">>) ELSE EmptyDict >>

get_entity_node_return_query == <<"<entity_node_return>">>
COMMUNITY_NODE_RETURN == <<"<community_node_return>">>
get_entity_edge_return_query == <<"<entity_edge_return>">>

NEO4J_ENTITY_VECTOR_INDEX == "<entity_vector_index>"
NEO4J_COMMUNITY_VECTOR_INDEX == "<community_vector_index>"
NEO4J_EDGE_VECTOR_INDEX == "<edge_vector_index>"

----------------------------------------------------------------------------
(* Group-scope splitter                                                    *)

\* Python truthiness of a list[str] | None: neither None nor empty
Truthy(group_ids) == group_ids # None /\ Len(group_ids.val) > 0

\* a plausible slip: the first identifier scopes the index whenever there is one
split_first_of_many(group_ids) ==
    IF Truthy(group_ids) /\ Len(group_ids.val) >= 1
    THEN <<Some(group_ids.val[1]), None>>
    ELSE <<None, group_ids>>

\* lines 44-47: (search_group_id, post_group_ids)
split_group_ids(group_ids) ==
    IF Truthy(group_ids) /\ Len(group_ids.val) = 1
    THEN <<Some(group_ids.val[1]), None>>
    ELSE <<None, group_ids>>

----------------------------------------------------------------------------
(* Query assemblers                                                        *)

RECURSIVE Join(_, _)
\* sep.join(parts) on token sequences
Join(sep, parts) ==
    IF Len(parts) = 0 THEN <<>>
    ELSE IF Len(parts) = 1 THEN parts[1]
    ELSE parts[1] \o sep \o Join(sep, Tail(parts))

\* lines 64-66, 180-182: filter_query from filter_queries
FilterQuery(filter_queries) ==
    IF Len(filter_queries) > 0
    THEN <<"WHERE">> \o Join(<<"AND">>, filter_queries)
    ELSE <<>>

\* a plausible slip: the threshold is dropped when other predicates exist
ScoreFilterDropsThreshold(filter_query) ==
    IF Len(filter_query) > 0
    THEN filter_query
    ELSE <<"WHERE", "score", ">", "$min_score">>

\* lines 68-70, 117-119, 184-186: score_filter from filter_query
ScoreFilter(filter_query) ==
    IF Len(filter_query) > 0
    THEN filter_query \o <<"AND", "score", ">", "$min_score">>
    ELSE <<"WHERE", "score", ">", "$min_score">>

\* lines 72-75, 121-124, 188-191: search_where for the entity's group field
SearchWhere(field, search_group_id) ==
    IF search_group_id # None
    THEN <<"WHERE", field, "=", "$group_id">>
    ELSE <<>>

\* a plausible slip: the index-scope parameter is never bound
SearchParamsUnbound(search_group_id) == EmptyDict

\* lines 73-76, 122-125, 189-192: search_params
SearchParams(search_group_id) ==
    IF search_group_id # None
    THEN DictSet(EmptyDict, "group_id", search_group_id.val)
    ELSE EmptyDict

\* lines 50-103
build_node_vector_search_query(search_filter, group_ids) ==
    LET split == split_group_ids(group_ids)
        search_group_id == split[1]
        post_group_ids == split[2]
        constructed == node_search_filter_query_constructor(search_filter)
        filter_queries ==
            IF post_group_ids # None
            THEN Append(constructed[1], <<"n.group_id", "IN", "$group_ids">>)
            ELSE constructed[1]
        filter_params ==
            IF post_group_ids # None
            THEN DictSet(constructed[2], "group_ids", post_group_ids.val)
            ELSE constructed[2]
        score_filter == ScoreFilter(FilterQuery(filter_queries))
        search_where == SearchWhere("n.group_id", search_group_id)
        search_params == SearchParams(search_group_id)
        query ==
            <<"MATCH", "(n:Entity)", "SEARCH", "n", "IN", "(",
              "VECTOR", "INDEX", NEO4J_ENTITY_VECTOR_INDEX,
              "FOR", "$search_vector">>
            \o search_where
            \o <<"LIMIT", "$limit", ")", "SCORE", "AS", "score">>
            \o score_filter
            \o <<"RETURN">>
            \o get_entity_node_return_query
            \o <<"ORDER", "BY", "score", "DESC", "LIMIT", "$limit">>
    IN  [query |-> query, params |-> DictMerge(search_params, filter_params)]

\* lines 106-152
build_community_vector_search_query(group_ids) ==
    LET split == split_group_ids(group_ids)
        search_group_id == split[1]
        post_group_ids == split[2]
        filter_query ==
            IF post_group_ids # None
            THEN <<"WHERE", "c.group_id", "IN", "$group_ids">>
            ELSE <<>>
        filter_params ==
            IF post_group_ids # None
            THEN DictSet(EmptyDict, "group_ids", post_group_ids.val)
            ELSE EmptyDict
        score_filter == ScoreFilter(filter_query)
        search_where == SearchWhere("c.group_id", search_group_id)
        search_params == SearchParams(search_group_id)
        query ==
            <<"MATCH", "(c:Community)", "SEARCH", "c", "IN", "(",
              "VECTOR", "INDEX", NEO4J_COMMUNITY_VECTOR_INDEX,
              "FOR", "$search_vector">>
            \o search_where
            \o <<"LIMIT", "$limit", ")", "SCORE", "AS", "score">>
            \o score_filter
            \o <<"RETURN">>
            \o COMMUNITY_NODE_RETURN
            \o <<"ORDER", "BY", "score", "DESC", "LIMIT", "$limit">>
    IN  [query |-> query, params |-> DictMerge(search_params, filter_params)]

\* a plausible slip: the endpoints are gated on the multi-identifier branch
EndpointGateOnPostFilter(group_ids) == split_group_ids(group_ids)[2] # None

\* line 171: if group_ids is not None
EndpointGate(group_ids) == group_ids # None

\* lines 155-221
build_edge_vector_search_query(search_filter, group_ids, source_node_uuid, target_node_uuid) ==
    LET split == split_group_ids(group_ids)
        search_group_id == split[1]
        post_group_ids == split[2]
        constructed == edge_search_filter_query_constructor(search_filter)
        queries1 ==
            IF post_group_ids # None
            THEN Append(constructed[1], <<"e.group_id", "IN", "$group_ids">>)
            ELSE constructed[1]
        params1 ==
            IF post_group_ids # None
            THEN DictSet(constructed[2], "group_ids", post_group_ids.val)
            ELSE constructed[2]
        with_source == EndpointGate(group_ids) /\ source_node_uuid # None
        params2 ==
            IF with_source
            THEN DictSet(params1, "source_uuid", source_node_uuid.val)
            ELSE params1
        queries2 ==
            IF with_source
            THEN Append(queries1, <<"n.uuid", "=", "$source_uuid">>)
            ELSE queries1
        with_target == EndpointGate(group_ids) /\ target_node_uuid # None
        filter_params ==
            IF with_target
            THEN DictSet(params2, "target_uuid", target_node_uuid.val)
            ELSE params2
        filter_queries ==
            IF with_target
            THEN Append(queries2, <<"m.uuid", "=", "$target_uuid">>)
            ELSE queries2
        score_filter == ScoreFilter(FilterQuery(filter_queries))
        search_where == SearchWhere("e.group_id", search_group_id)
        search_params == SearchParams(search_group_id)
        query ==
            <<"MATCH", "()-[e:RELATES_TO]-()", "SEARCH", "e", "IN", "(",
              "VECTOR", "INDEX", NEO4J_EDGE_VECTOR_INDEX,
              "FOR", "$search_vector">>
            \o search_where
            \o <<"LIMIT", "$limit", ")", "SCORE", "AS", "score",
                 "WITH", "e,", "score",
                 "MATCH", "(n:Entity)-[e:RELATES_TO]->(m:Entity)">>
            \o score_filter
            \o <<"RETURN">>
            \o get_entity_edge_return_query
            \o <<"ORDER", "BY", "score", "DESC", "LIMIT", "$limit">>
    IN  [query |-> query, params |-> DictMerge(search_params, filter_params)]

----------------------------------------------------------------------------
(* Calls of the pure functions, each on inputs of its own                  *)

Call(fn, search_filter, group_ids, source_node_uuid, target_node_uuid) ==
    [fn |-> fn, search_filter |-> search_filter, group_ids |-> group_ids,
     source_node_uuid |-> source_node_uuid,
     target_node_uuid |-> target_node_uuid]

SplitCall(g) ==
    /\ call' = Call("split", NoFilter, g, None, None)
    /\ result' = split_group_ids(g)

NodeCall(f, g) ==
    /\ call' = Call("node", f, g, None, None)
    /\ result' = build_node_vector_search_query(f, g)

CommunityCall(g) ==
    /\ call' = Call("community", NoFilter, g, None, None)
    /\ result' = build_community_vector_search_query(g)

EdgeCall(f, g, src, tgt) ==
    /\ call' = Call("edge", f, g, src, tgt)
    /\ result' = build_edge_vector_search_query(f, g, src, tgt)

NextBuild ==
    \/ \E g \in GroupIdArgs :
          SplitCall(g) /\ UNCHANGED <<trackerVars, callerVars>>
    \/ \E f \in SearchFilters, g \in GroupIdArgs :
          NodeCall(f, g) /\ UNCHANGED <<trackerVars, callerVars>>
    \/ \E g \in GroupIdArgs :
          CommunityCall(g) /\ UNCHANGED <<trackerVars, callerVars>>
    \/ \E f \in SearchFilters, g \in GroupIdArgs,
          src \in SourceArgs, tgt \in TargetArgs :
          EdgeCall(f, g, src, tgt) /\ UNCHANGED <<trackerVars, callerVars>>

SpecBuild == Init /\ [][NextBuild]_vars

----------------------------------------------------------------------------
(* Reading a returned query text                                           *)

\* the placeholder names this model's texts can hold, and their tokens
ParamNames ==
    {"search_vector", "limit", "min_score", "group_id", "group_ids",
     "source_uuid", "target_uuid", "filter_values"}

Dollar(name) ==
    CASE name = "search_vector" -> "$search_vector"
      [] name = "limit" -> "$limit"
      [] name = "min_score" -> "$min_score"
      [] name = "group_id" -> "$group_id"
      [] name = "group_ids" -> "$group_ids"
      [] name = "source_uuid" -> "$source_uuid"
      [] name = "target_uuid" -> "$target_uuid"
      [] name = "filter_values" -> "$filter_values"

\* the names bound by the execution layer, never by this module
ExternallyBound == {"search_vector", "limit", "min_score"}

Placeholders(text) == {n \in ParamNames : Dollar(n) \in Range(text)}

Count(text, tok) == Cardinality({i \in DOMAIN text : text[i] = tok})

\* first position of tok in text at or after position from; 0 when there is none
PosFrom(text, tok, from) ==
    LET at == {i \in DOMAIN text : i >= from /\ text[i] = tok}
    IN  IF at = {} THEN 0 ELSE CHOOSE i \in at : \A j \in at : i <= j

Pos(text, tok) == PosFrom(text, tok, 1)

\* whether part occurs in text as a run of consecutive tokens
Occurs(part, text) ==
    \E i \in 1..(Len(text) - Len(part) + 1) :
        SubSeq(text, i, i + Len(part) - 1) = part

\* the tokens of the native lookup, between its "(" and ")"
Lookup(text) == SubSeq(text, Pos(text, "(") + 1, Pos(text, ")") - 1)

\* the index-scope clause: what the lookup holds between the search vector
\* and its LIMIT
IndexScope(text) ==
    SubSeq(Lookup(text), Pos(Lookup(text), "$search_vector") + 1,
           Pos(Lookup(text), "LIMIT") - 1)

\* the post-filter clause: from the first WHERE after the lookup up to RETURN
PostFilter(text) ==
    SubSeq(text, PosFrom(text, "WHERE", Pos(text, ")")), Pos(text, "RETURN") - 1)

Assemblers == {"node", "community", "edge"}

\* the group field of the assembler's entity
GroupField(fn) ==
    CASE fn = "node" -> "n.group_id"
      [] fn = "community" -> "c.group_id"
      [] fn = "edge" -> "e.group_id"

\* what the same call returns on other group_ids
Recall(c, group_ids) ==
    CASE c.fn = "node" ->
            build_node_vector_search_query(c.search_filter, group_ids)
      [] c.fn = "community" ->
            build_community_vector_search_query(group_ids)
      [] c.fn = "edge" ->
            build_edge_vector_search_query(c.search_filter, group_ids,
                c.source_node_uuid, c.target_node_uuid)

\* the fragments the filter collaborator contributed to the call
CollaboratorFragments(c) ==
    CASE c.fn = "node" -> node_search_filter_query_constructor(c.search_filter)[1]
      [] c.fn = "community" -> <<>>
      [] c.fn = "edge" -> edge_search_filter_query_constructor(c.search_filter)[1]

----------------------------------------------------------------------------
(* Properties of the splitter and the assemblers                           *)

\* C4: split_group_ids returns (the identifier, None) for a list of one
\* identifier, (None, None) for None and for the empty list, and
\* (None, the list itself) for two or more identifiers.
C4_SplitCases ==
    call.fn = "split" =>
        IF call.group_ids = None THEN result = <<None, None>>
        ELSE IF Len(call.group_ids.val) = 0 THEN result = <<None, None>>
        ELSE IF Len(call.group_ids.val) = 1
             THEN result = <<Some(call.group_ids.val[1]), None>>
        ELSE result = <<None, call.group_ids>>

\* C5: an assembler called with the empty list returns the query text and
\* the parameter mapping it returns for None, with no group predicate in
\* the text and neither group_id nor group_ids bound.
C5_EmptySameAsAbsent ==
    (call.fn \in Assemblers /\ call.group_ids = Some(<<>>)) =>
        /\ result = Recall(call, None)
        /\ ~Occurs(<<GroupField(call.fn), "=", "$group_id">>, result.query)
        /\ ~Occurs(<<GroupField(call.fn), "IN", "$group_ids">>, result.query)
        /\ "group_id" \notin DOMAIN result.params
        /\ "group_ids" \notin DOMAIN result.params

\* C6: the placeholders of the returned text are exactly the keys of the
\* returned mapping together with search_vector, limit and min_score.
C6_PlaceholdersAreKeys ==
    call.fn \in Assemblers =>
        Placeholders(result.query) = DOMAIN result.params \cup ExternallyBound

\* an edge query scoped to one group, with a parameter-binding filter and
\* both endpoints
C6_Witness ==
    /\ call.fn = "edge"
    /\ call.group_ids = Some(<<"tenantA">>)
    /\ DOMAIN result.params =
          {"group_id", "filter_values", "source_uuid", "target_uuid"}
    /\ Placeholders(result.query) = ParamNames \ {"group_ids"}

\* C7: with exactly one identifier the lookup holds the index-scope clause
\* on $group_id, bound to that identifier, and group_ids appears nowhere;
\* with two or more the lookup holds no scope, group_id appears nowhere,
\* and the post-filter clause holds the membership predicate on
\* $group_ids, bound to the list as given.
C7_ScopeFormsExclusive ==
    (call.fn \in Assemblers /\ call.group_ids # None) =>
        LET ids == call.group_ids.val
            text == result.query
            params == result.params
            field == GroupField(call.fn)
        IN  /\ Len(ids) = 1 =>
                /\ IndexScope(text) = <<"WHERE", field, "=", "$group_id">>
                /\ Pos(text, "$group_id") < Pos(text, "LIMIT")
                /\ "group_id" \in DOMAIN params
                /\ params["group_id"] = ids[1]
                /\ "$group_ids" \notin Range(text)
                /\ "group_ids" \notin DOMAIN params
            /\ Len(ids) >= 2 =>
                /\ IndexScope(text) = <<>>
                /\ "$group_id" \notin Range(text)
                /\ "group_id" \notin DOMAIN params
                /\ Occurs(<<field, "IN", "$group_ids">>, PostFilter(text))
                /\ Count(text, "$group_ids") = 1
                /\ "group_ids" \in DOMAIN params
                /\ params["group_ids"] = ids

\* a community query over two groups
C7_Witness ==
    /\ call.fn = "community"
    /\ call.group_ids = Some(<<"tenantA", "tenantB">>)
    /\ PostFilter(result.query) =
          <<"WHERE", "c.group_id", "IN", "$group_ids",
            "AND", "score", ">", "$min_score">>
    /\ result.params["group_ids"] = <<"tenantA", "tenantB">>

\* C8: in the edge assembler no endpoint predicate or binding is added when
\* group_ids is None, whatever the endpoints; with one or more identifiers
\* each endpoint that is given adds its equality predicate once and its
\* binding, and an endpoint that is not given adds neither.
C8_EndpointsGatedOnScope ==
    call.fn = "edge" =>
        LET text == result.query
            params == result.params
            source == <<"n.uuid", "=", "$source_uuid">>
            target == <<"m.uuid", "=", "$target_uuid">>
        IN  /\ call.group_ids = None =>
                /\ "$source_uuid" \notin Range(text)
                /\ "$target_uuid" \notin Range(text)
                /\ "n.uuid" \notin Range(text)
                /\ "m.uuid" \notin Range(text)
                /\ "source_uuid" \notin DOMAIN params
                /\ "target_uuid" \notin DOMAIN params
            /\ (call.group_ids # None /\ Len(call.group_ids.val) >= 1) =>
                /\ IF call.source_node_uuid # None
                   THEN /\ Occurs(source, PostFilter(text))
                        /\ Count(text, "$source_uuid") = 1
                        /\ "source_uuid" \in DOMAIN params
                        /\ params["source_uuid"] = call.source_node_uuid.val
                   ELSE /\ "$source_uuid" \notin Range(text)
                        /\ "source_uuid" \notin DOMAIN params
                /\ IF call.target_node_uuid # None
                   THEN /\ Occurs(target, PostFilter(text))
                        /\ Count(text, "$target_uuid") = 1
                        /\ "target_uuid" \in DOMAIN params
                        /\ params["target_uuid"] = call.target_node_uuid.val
                   ELSE /\ "$target_uuid" \notin Range(text)
                        /\ "target_uuid" \notin DOMAIN params

\* an edge query scoped to one group with only the source endpoint given
C8_Witness ==
    /\ call.fn = "edge"
    /\ call.group_ids = Some(<<"tenantA">>)
    /\ call.source_node_uuid = Some("x")
    /\ call.target_node_uuid = None
    /\ "source_uuid" \in DOMAIN result.params
    /\ "target_uuid" \notin DOMAIN result.params

\* an edge query with no scope and both endpoints given, which adds neither
C8_WitnessAbsent ==
    /\ call.fn = "edge"
    /\ call.group_ids = None
    /\ call.source_node_uuid = Some("x")
    /\ call.target_node_uuid = Some("y")
    /\ DOMAIN result.params \cap {"source_uuid", "target_uuid"} = {}

\* the fragments accumulated for the call, in accumulation order: the
\* collaborator's, then the group_ids membership, the source, the target
Accumulated(c, params) ==
    CollaboratorFragments(c)
    \o (IF "group_ids" \in DOMAIN params
        THEN << <<GroupField(c.fn), "IN", "$group_ids">> >> ELSE <<>>)
    \o (IF "source_uuid" \in DOMAIN params
        THEN << <<"n.uuid", "=", "$source_uuid">> >> ELSE <<>>)
    \o (IF "target_uuid" \in DOMAIN params
        THEN << <<"m.uuid", "=", "$target_uuid">> >> ELSE <<>>)

\* what follows the lookup before the post-filter clause
AfterLookup(fn) ==
    <<"SCORE", "AS", "score">>
    \o (IF fn = "edge"
        THEN <<"WITH", "e,", "score",
               "MATCH", "(n:Entity)-[e:RELATES_TO]->(m:Entity)">>
        ELSE <<>>)

\* C10: the post-filter clause holds score > $min_score exactly once: alone
\* when nothing was accumulated, otherwise after the accumulated fragments
\* in accumulation order, all joined with AND; the clause stands after the
\* lookup (and the edge re-match) and directly before RETURN; LIMIT $limit
\* closes the lookup and ends the text.
C10_PostFilterClause ==
    call.fn \in Assemblers =>
        LET text == result.query
            acc == Accumulated(call, result.params)
            threshold == <<"score", ">", "$min_score">>
            close == Pos(text, ")")
            start == close + 1 + Len(AfterLookup(call.fn))
        IN  /\ PostFilter(text) =
                  IF Len(acc) = 0 THEN <<"WHERE">> \o threshold
                  ELSE <<"WHERE">> \o Join(<<"AND">>, acc \o <<threshold>>)
            /\ Count(text, "$min_score") = 1
            /\ Count(text, "WHERE") - Count(Lookup(text), "WHERE") = 1
            /\ SubSeq(text, close + 1, start - 1) = AfterLookup(call.fn)
            /\ PosFrom(text, "WHERE", close) = start
            /\ Count(text, "RETURN") = 1
            /\ SubSeq(text, close - 2, close - 1) = <<"LIMIT", "$limit">>
            /\ SubSeq(text, Len(text) - 5, Len(text)) =
                  <<"ORDER", "BY", "score", "DESC", "LIMIT", "$limit">>
            /\ Count(text, "$limit") = 2

\* an edge query over two groups with a two-criteria filter and both
\* endpoints: five fragments precede the threshold
C10_Witness ==
    /\ call.fn = "edge"
    /\ call.search_filter = [labels |-> TRUE, values |-> TRUE]
    /\ call.group_ids = Some(<<"tenantA", "tenantB">>)
    /\ PostFilter(result.query) =
          <<"WHERE", "n:Person", "AND", "m:Person",
            "AND", "e.name", "IN", "$filter_values",
            "AND", "e.group_id", "IN", "$group_ids",
            "AND", "n.uuid", "=", "$source_uuid",
            "AND", "m.uuid", "=", "$target_uuid",
            "AND", "score", ">", "$min_score">>

\* a node query with no filter and no scope: the threshold stands alone
C10_WitnessAlone ==
    /\ call.fn = "node"
    /\ call.group_ids = None
    /\ PostFilter(result.query) = <<"WHERE", "score", ">", "$min_score">>

====
